---- MODULE Spec2Model ----
(***************************************************************************)
(* MorphMan: the morpheme database (morph/morphemes.py, class MorphDb) and *)
(* the memoizing extraction cache with its replacement-rule engine         *)
(* (morph/morphemes.py, getMorphemes), over the analyzers of               *)
(* morph/morphemizer.py.                                                   *)
(*                                                                         *)
(* Python objects are modelled with their identity where the code relies   *)
(* on it: a Location is a record with an object identity `obj` (class      *)
(* Location defines neither __eq__ nor __hash__), a set of locations is a  *)
(* cell of `heap` (merge stores the very set object it is handed), a       *)
(* Morpheme is a record compared by Morpheme.__eq__ / Morpheme.__hash__.   *)
(* A set object is named by the database and key it was created for: a     *)
(* database creates at most one set per key.                               *)
(***************************************************************************)
EXTENDS Integers, Sequences, FiniteSets, TLC

VARIABLES db, heap, last, ops,          \* the MorphDb instances and their call log
          cache, n, disk, rules, call, calls, \* the extraction cache and its call log
          store,                          \* the cache file and whether the cache is loaded
          attrs, q,                       \* the cached indices of each MorphDb, the latest query
          proc, th,                       \* the analyzer process and the threads calling it
          files, fcall                    \* the files on disk, the latest call that used one

dbVars == <<db, heap, last, ops>>
cacheVars == <<cache, n, disk, rules, call, calls, store>>
queryVars == <<attrs, q>>
procVars == <<proc, th>>
fileVars == <<files, fcall>>
vars == <<db, heap, last, ops, cache, n, disk, rules, call, calls, store, attrs, q,
          proc, th, files, fcall>>

(***************************************************************************)
(* Bounds.                                                                 *)
(***************************************************************************)
MaxOps == 4
MaxPairs == 1
MaxMs == 2
MaxCalls == 3
MaxLen == 2
MaxInteracts == 3
MaxImports == 2
MaxLines == 2

(***************************************************************************)
(* Values.                                                                 *)
(***************************************************************************)
Morpheme(base, inflected, pos, subPos, read) ==
    [base |-> base, inflected |-> inflected, pos |-> pos, subPos |-> subPos, read |-> read]

\* __eq__ with the comparison of `inflected` left in
MEqInflected(m, o) ==
    /\ m.pos = o.pos
    /\ m.subPos = o.subPos
    /\ m.read = o.read
    /\ m.base = o.base
    /\ m.inflected = o.inflected

MEq(m, o) ==
    /\ m.pos = o.pos
    /\ m.subPos = o.subPos
    /\ m.read = o.read
    /\ m.base = o.base

MHash(m) == <<m.pos, m.subPos, m.read, m.base>>

TextFile(filePath, lineNo, maturity) ==
    [kind |-> "TextFile", filePath |-> filePath, lineNo |-> lineNo,
     maturity |-> maturity, weight |-> 1]

\* Location objects the callers have constructed: `obj` is the identity of
\* the Python object, `v` its fields.  The two objects are TextFile values
\* built separately with identical fields.
LocObjs ==
    { [obj |-> 1, v |-> TextFile("f", 1, 0)],
      [obj |-> 2, v |-> TextFile("f", 1, 0)] }

\* class Location has no __eq__ / __hash__: object identity.
LocEq(l, o) == l.obj = o.obj
LocHash(l) == l.obj

DbMorphemes ==
    { Morpheme(<<"a">>, <<"i">>, "N", "U", <<"a">>),
      Morpheme(<<"a">>, <<"j">>, "N", "U", <<"a">>),
      Morpheme(<<"b">>, <<"i">>, "N", "U", <<"b">>) }

\* the long-lived databases, and the two instances a copy-and-merge
\* experiment constructs and drops again
DbIds == {"A", "B"}
ScratchIds == {"X", "Y"}
AllIds == DbIds \cup ScratchIds

(***************************************************************************)
(* Python set and dict primitives.                                         *)
(***************************************************************************)
Range(f) == { f[i] : i \in DOMAIN f }

SeqsUpTo(T, k) == UNION { [1..i -> T] : i \in 0..k }

SetHas(S, l) == \E e \in S : LocHash(e) = LocHash(l) /\ LocEq(e, l)
SetAdd(S, l) == IF SetHas(S, l) THEN S ELSE S \cup {l}
SetDiff(T, S) == { l \in T : ~SetHas(S, l) }
SetUpdate(S, T) == S \cup SetDiff(T, S)

\* the entries of dict d whose key equals m (at most one)
DictFind(d, m) == { e \in d : MHash(e.key) = MHash(m) /\ MEq(e.key, m) }
DictHas(d, m) == DictFind(d, m) # {}
DictRef(d, m) == (CHOOSE e \in DictFind(d, m) : TRUE).ref

\* the contents of database d read off a store: a morpheme is identified
\* by (base, pos, subPos, read)
Ident(m) == <<m.base, m.pos, m.subPos, m.read>>
Locs(D, H, d, m) == UNION { H[e.ref] : e \in { x \in D[d] : Ident(x.key) = Ident(m) } }
Keys(D, d) == { Ident(e.key) : e \in D[d] }
Pairs(D, H, d) == UNION { { <<Ident(e.key), l>> : l \in H[e.ref] } : e \in D[d] }
View(D, H, d) == { <<Ident(e.key), H[e.ref]>> : e \in D[d] }

(***************************************************************************)
(* Text, regular expressions and the analyzers.                            *)
(* A text is a sequence of characters: "a" is a CJK character (and a word  *)
(* character), "-" is neither.  A rule's regex is a literal string.        *)
(***************************************************************************)
Chars == {"a", "-"}
Texts == UNION { [1..i -> Chars] : i \in 0..MaxLen }

\* zhon.hanzi.characters / the class \w
CjkChars == {"a"}
WordChars == {"a"}

Analyzers == {"CjkCharMorphemizer", "SpaceMorphemizer"}

getDescription(an) ==
    IF an = "CjkCharMorphemizer" THEN "CJK characters" ELSE "Language with spaces"

\* re.findall(r"\w+", e): the maximal runs of word characters
RunLen(e) ==
    IF \A i \in 1..Len(e) : e[i] \in WordChars THEN Len(e)
    ELSE (CHOOSE i \in 1..Len(e) : e[i] \notin WordChars /\ \A j \in 1..(i - 1) : e[j] \in WordChars) - 1

RECURSIVE FindWords(_)
FindWords(e) ==
    IF e = <<>> THEN <<>>
    ELSE IF Head(e) \notin WordChars THEN FindWords(Tail(e))
    ELSE <<SubSeq(e, 1, RunLen(e))>> \o FindWords(SubSeq(e, RunLen(e) + 1, Len(e)))

RECURSIVE FindCjk(_)
FindCjk(e) ==
    IF e = <<>> THEN <<>>
    ELSE (IF Head(e) \in CjkChars THEN <<<<Head(e)>>>> ELSE <<>>) \o FindCjk(Tail(e))

getMorphemesFromExpr(an, e) ==
    IF an = "CjkCharMorphemizer"
    THEN LET cs == FindCjk(e)
         IN [i \in 1..Len(cs) |-> Morpheme(cs[i], cs[i], "CJK_CHAR", "UNKNOWN", cs[i])]
    ELSE LET ws == FindWords(e)
         IN [i \in 1..Len(ws) |-> Morpheme(ws[i], ws[i], "UNKNOWN", "UNKNOWN", ws[i])]

\* re.split(regex, expression, maxsplit=1): the text before and after the
\* leftmost match, or the text alone when nothing matches (an empty regex
\* matches at position 0)
MatchesAt(regex, e, i) ==
    /\ i + Len(regex) <= Len(e)
    /\ SubSeq(e, i + 1, i + Len(regex)) = regex

reSplit(regex, e) ==
    IF \E i \in 0..Len(e) : MatchesAt(regex, e, i)
    THEN LET i == CHOOSE k \in 0..Len(e) :
                     MatchesAt(regex, e, k) /\ \A j \in 0..(k - 1) : ~MatchesAt(regex, e, j)
         IN <<SubSeq(e, 1, i), SubSeq(e, i + Len(regex) + 1, Len(e))>>
    ELSE <<e>>

(***************************************************************************)
(* The replacement rules jcfg('ReplaceRules') can hold, and note tags.     *)
(* An optional value is [some, v].                                         *)
(***************************************************************************)
None == [some |-> FALSE, v |-> {}]
Some(x) == [some |-> TRUE, v |-> x]

Rule(filter_tags, regex, morphemes) ==
    [filter_tags |-> filter_tags, regex |-> regex, morphemes |-> morphemes]

RuleDash == Rule({}, <<"-">>, <<<<"L">>>>)
RuleEmpty == Rule({}, <<>>, <<<<"E">>>>)
RuleTagA == Rule({"t"}, <<"a">>, <<<<"T">>, <<"U">>>>)

NoRules == [some |-> FALSE, v |-> <<>>]

RuleConfigs ==
    { NoRules, Some(<<>>), Some(<<RuleDash>>), Some(<<RuleEmpty, RuleDash>>),
      Some(<<RuleTagA, RuleDash>>) }

TagChoices == { None, Some({}), Some({"t"}) }

(***************************************************************************)
(* getMorphemes on a cache state C = [cache, n, disk, rules, store].        *)
(* The result is [C, kind, ms, maxd]: the state left behind, "ok" or the   *)
(* exception raised, the morphemes returned, the deepest call level.       *)
(* store = [file, writable, loaded]: the cache file is "missing", "valid"  *)
(* (it unpickles to disk) or "corrupt"; it can be written or not; the      *)
(* memoized MorphCache has been constructed or not.                        *)
(***************************************************************************)
FlushEvery == 100
RecursionLimit == 5

EmptyCache == [k \in {} |-> <<>>]

Return(C, ms, d) == [C |-> C, kind |-> "ok", ms |-> ms, maxd |-> d]
Raise(C, exc, d) == [C |-> C, kind |-> exc, ms |-> <<>>, maxd |-> d]

\* a rule passes the `continue` tests of the loop body
Applies(rule, expression, note_tags) ==
    LET splitted_expression == reSplit(rule.regex, expression)
    IN /\ rule.filter_tags \subseteq note_tags
       /\ Len(splitted_expression) = 2
       /\ Len(splitted_expression[1]) < Len(expression)
       /\ Len(splitted_expression[2]) < Len(expression)

\* the index of the rule the loop breaks on, 0 when it runs to its end
FirstRule(replace_rules, expression, note_tags) ==
    IF \E i \in 1..Len(replace_rules) : Applies(replace_rules[i], expression, note_tags)
    THEN CHOOSE i \in 1..Len(replace_rules) :
            /\ Applies(replace_rules[i], expression, note_tags)
            /\ \A j \in 1..(i - 1) : ~Applies(replace_rules[j], expression, note_tags)
    ELSE 0

\* getMorphCacheDB(): the memoized MorphCache(), constructed on first use;
\* pickle.load of a corrupt file raises and nothing is memoized
getMorphCacheDB(C) ==
    IF C.store.loaded THEN [C |-> C, kind |-> "ok"]
    ELSE IF C.store.file = "corrupt" THEN [C |-> C, kind |-> "UnpicklingError"]
    ELSE [C |-> [C EXCEPT !.cache = IF C.store.file = "valid" THEN C.disk ELSE EmptyCache,
                          !.store.loaded = TRUE],
          kind |-> "ok"]

\* a store that flushes the cache every time
StoreMorphemesFlushAlways(C, morph_key, ms, d) ==
    LET c2 == [k \in DOMAIN C.cache \cup {morph_key} |->
                  IF k = morph_key THEN ms ELSE C.cache[k]]
        n2 == C.n + 1
        C2 == [C EXCEPT !.cache = c2, !.n = n2]
    IN IF ~C.store.writable THEN Raise(C2, "OSError", d)
       ELSE Return([C2 EXCEPT !.disk = c2, !.store.file = "valid"], ms, d)

\* lines 120-126: store, count, flush every FlushEvery-th store; save()
\* raises when the file cannot be opened for writing
StoreMorphemes(C, morph_key, ms, d) ==
    LET c2 == [k \in DOMAIN C.cache \cup {morph_key} |->
                  IF k = morph_key THEN ms ELSE C.cache[k]]
        n2 == C.n + 1
        C2 == [C EXCEPT !.cache = c2, !.n = n2]
    IN IF n2 % FlushEvery # 0 THEN Return(C2, ms, d)
       ELSE IF ~C.store.writable THEN Raise(C2, "OSError", d)
       ELSE Return([C2 EXCEPT !.disk = c2, !.store.file = "valid"], ms, d)

Max(i, j) == IF i >= j THEN i ELSE j

\* lines 91-126, with the MorphCache at hand
RECURSIVE getMorphemes(_, _, _, _, _)
Lookup(C, an, expression, note_tags, depth) ==
    LET morph_key == <<getDescription(an), expression>>
    IN IF morph_key \in DOMAIN C.cache THEN Return(C, C.cache[morph_key], depth)
       ELSE IF note_tags.some /\ C.rules.some
       THEN LET i == FirstRule(C.rules.v, expression, note_tags.v)
            IN IF i = 0
               \* the loop ends without break and ms was never assigned
               THEN Raise(C, "UnboundLocalError", depth)
               ELSE LET rule == C.rules.v[i]
                        sp == reSplit(rule.regex, expression)
                        a == getMorphemes(C, an, sp[1], note_tags, depth + 1)
                        b_morphs == [k \in 1..Len(rule.morphemes) |->
                                       Morpheme(rule.morphemes[k], rule.morphemes[k],
                                                "UNKNOWN", "UNKNOWN", rule.morphemes[k])]
                        c == getMorphemes(a.C, an, sp[2], note_tags, depth + 1)
                    IN IF a.kind # "ok" THEN a
                       ELSE IF c.kind # "ok" THEN [c EXCEPT !.maxd = Max(a.maxd, c.maxd)]
                       ELSE StoreMorphemes(c.C, morph_key, a.ms \o b_morphs \o c.ms,
                                           Max(a.maxd, c.maxd))
       ELSE StoreMorphemes(C, morph_key, getMorphemesFromExpr(an, expression), depth)

getMorphemes(C0, an, expression, note_tags, depth) ==
    IF depth > RecursionLimit THEN Raise(C0, "RecursionError", depth)
    ELSE LET L == getMorphCacheDB(C0)
         IN IF L.kind # "ok" THEN Raise(C0, L.kind, depth)
            ELSE Lookup(L.C, an, expression, note_tags, depth)

(***************************************************************************)
(* The extraction-cache state machine.                                     *)
(***************************************************************************)
CacheState == [cache |-> cache, n |-> n, disk |-> disk, rules |-> rules, store |-> store]

NoCall ==
    [an |-> "CjkCharMorphemizer", expression |-> <<>>, note_tags |-> None,
     hit |-> FALSE, kind |-> "none", ms |-> <<>>, maxd |-> 0]

InitCache ==
    /\ cache = EmptyCache
    /\ n = 0
    /\ disk = EmptyCache
    /\ rules \in RuleConfigs
    /\ call = NoCall
    /\ calls = 0
    /\ store = [file |-> "missing", writable |-> TRUE, loaded |-> FALSE]

GetMorphemes ==
    \E an \in Analyzers, expression \in Texts, note_tags \in TagChoices :
        LET R == getMorphemes(CacheState, an, expression, note_tags, 1)
        IN /\ calls < MaxCalls
           /\ cache' = R.C.cache
           /\ n' = R.C.n
           /\ disk' = R.C.disk
           /\ store' = R.C.store
           /\ call' = [an |-> an, expression |-> expression, note_tags |-> note_tags,
                       hit |-> (<<getDescription(an), expression>> \in DOMAIN cache),
                       kind |-> R.kind, ms |-> R.ms, maxd |-> R.maxd]
           /\ calls' = calls + 1
           /\ UNCHANGED rules
           /\ UNCHANGED <<dbVars, queryVars, procVars, fileVars>>

(***************************************************************************)
(* The cache and its file across processes.  A process starts with the     *)
(* cache file missing, corrupt or holding the dump of an earlier session,  *)
(* or is met after it has stored FlushEvery - 2 results; the file can be   *)
(* written or not.  One replace rule is configured.                        *)
(***************************************************************************)
\* the dump an earlier session left
SavedCache ==
    [k \in {<<getDescription("CjkCharMorphemizer"), <<"a">>>>} |->
        getMorphemesFromExpr("CjkCharMorphemizer", <<"a">>)]

\* the i-th of the texts stored earlier in the session: seven characters,
\* none of them a word or CJK character
WarmText(i) == [j \in 1..7 |-> IF (i \div (2 ^ (j - 1))) % 2 = 1 THEN " " ELSE "-"]

WarmCache ==
    [k \in { <<getDescription("CjkCharMorphemizer"), WarmText(i)>> : i \in 1..(FlushEvery - 2) } |->
        getMorphemesFromExpr("CjkCharMorphemizer", k[2])]

InitStore ==
    /\ rules = Some(<<RuleDash>>)
    /\ call = NoCall
    /\ calls = 0
    /\ \/ /\ cache = EmptyCache
          /\ n = 0
          /\ store \in [file : {"missing", "corrupt", "valid"}, writable : {TRUE},
                        loaded : {FALSE}]
          /\ disk = IF store.file = "valid" THEN SavedCache ELSE EmptyCache
       \/ /\ cache = WarmCache
          /\ n = FlushEvery - 2
          /\ store \in [file : {"missing"}, writable : BOOLEAN, loaded : {TRUE}]
          /\ disk = EmptyCache

\* the process ends and a new one starts: the module is imported again
Restart ==
    /\ store.loaded
    /\ calls < MaxCalls
    /\ cache' = EmptyCache
    /\ n' = 0
    /\ store' = [store EXCEPT !.loaded = FALSE]
    /\ UNCHANGED <<disk, rules, call, calls>>
    /\ UNCHANGED <<dbVars, queryVars, procVars, fileVars>>

\* the calls of a session that analyzes with one morphemizer, for notes
\* without tags (None) and notes with an empty tag list
SessionAnalyzers == {"CjkCharMorphemizer"}
SessionTags == { None, Some({}) }

GetMorphemesSession ==
    \E an \in SessionAnalyzers, expression \in Texts, note_tags \in SessionTags :
        \E R \in {getMorphemes(CacheState, an, expression, note_tags, 1)} :
           /\ calls < MaxCalls
           /\ cache' = R.C.cache
           /\ n' = R.C.n
           /\ disk' = R.C.disk
           /\ store' = R.C.store
           /\ call' = [an |-> an, expression |-> expression, note_tags |-> note_tags,
                       hit |-> (<<getDescription(an), expression>> \in DOMAIN cache),
                       kind |-> R.kind, ms |-> R.ms, maxd |-> R.maxd]
           /\ calls' = calls + 1
           /\ UNCHANGED rules
           /\ UNCHANGED <<dbVars, queryVars, procVars, fileVars>>

NextStore == GetMorphemesSession \/ Restart

(***************************************************************************)
(* MorphDb operations on a store S = [db, heap].                           *)
(***************************************************************************)
\* the morphemes the analyzers produce
AnalyzerMorphemes ==
    UNION { Range(getMorphemesFromExpr(an, t)) : an \in Analyzers, t \in Texts }

KeyHashes == { MHash(m) : m \in DbMorphemes \cup AnalyzerMorphemes }
Refs == AllIds \X KeyHashes
NewRef(self, m) == <<self, MHash(m)>>

\* one iteration of the loop of addMLs / addFromLocDb
AddML(S, self, m, loc) ==
    IF DictHas(S.db[self], m)
    THEN [S EXCEPT !.heap[DictRef(S.db[self], m)] = SetAdd(@, loc)]
    ELSE [db |-> [S.db EXCEPT ![self] = @ \cup {[key |-> m, ref |-> NewRef(self, m)]}],
          heap |-> [S.heap EXCEPT ![NewRef(self, m)] = {loc}]]

RECURSIVE addMLs(_, _, _)
addMLs(S, self, mls) ==
    IF mls = <<>> THEN S
    ELSE addMLs(AddML(S, self, mls[1][1], mls[1][2]), self, Tail(mls))

addMsL(S, self, ms, loc) ==
    addMLs(S, self, [i \in 1..Len(ms) |-> <<ms[i], loc>>])

\* addMLs1: locs is the set object the caller built for this call; it
\* becomes the stored set itself when m is a new key
addMLs1(S, self, m, locs) ==
    IF ~DictHas(S.db[self], m)
    THEN [db |-> [S.db EXCEPT ![self] = @ \cup {[key |-> m, ref |-> NewRef(self, m)]}],
          heap |-> [S.heap EXCEPT ![NewRef(self, m)] = locs]]
    ELSE [S EXCEPT !.heap[DictRef(S.db[self], m)] = SetUpdate(@, locs)]

\* locDb: the index Location -> {Morpheme} computed from db
locDb(S, self) ==
    [l \in UNION { S.heap[e.ref] : e \in S.db[self] } |->
        { e.key : e \in { x \in S.db[self] : SetHas(S.heap[x.ref], l) } }]

\* a set's members in iteration order
RECURSIVE SetToSeq(_)
SetToSeq(T) ==
    IF T = {} THEN <<>>
    ELSE LET x == CHOOSE y \in T : TRUE IN <<x>> \o SetToSeq(T \ {x})

\* the (Morpheme, Location) pairs addFromLocDb visits
LdbPairs(ldb) ==
    SetToSeq(UNION { { <<m, l>> : m \in ldb[l] } : l \in DOMAIN ldb })

addFromLocDb(S, self, ldb) == addMLs(S, self, LdbPairs(ldb))

\* merge with the known-key branch assigning instead of updating
MergeEntryOverwrite(R, self, e) ==
    IF DictHas(R.db[self], e.key)
    THEN [db |-> [R.db EXCEPT ![self] =
                     (@ \ DictFind(@, e.key)) \cup {[key |-> e.key, ref |-> e.ref]}],
          heap |-> R.heap,
          new |-> R.new + Cardinality(SetDiff(R.heap[e.ref], R.heap[DictRef(R.db[self], e.key)]))]
    ELSE [db |-> [R.db EXCEPT ![self] = @ \cup {[key |-> e.key, ref |-> e.ref]}],
          heap |-> R.heap,
          new |-> R.new + Cardinality(R.heap[e.ref])]

\* merge with the update applied to the argument's set
MergeEntryUpdateOther(R, self, e) ==
    IF DictHas(R.db[self], e.key)
    THEN LET r == DictRef(R.db[self], e.key)
             locs == R.heap[e.ref]
         IN [db |-> R.db,
             heap |-> [R.heap EXCEPT ![e.ref] = SetUpdate(@, R.heap[r])],
             new |-> R.new + Cardinality(SetDiff(locs, R.heap[r]))]
    ELSE [db |-> [R.db EXCEPT ![self] = @ \cup {[key |-> e.key, ref |-> e.ref]}],
          heap |-> R.heap,
          new |-> R.new + Cardinality(R.heap[e.ref])]

\* merge counting a new morpheme as one entry
MergeEntryCountKeys(R, self, e) ==
    IF DictHas(R.db[self], e.key)
    THEN LET r == DictRef(R.db[self], e.key)
             locs == R.heap[e.ref]
         IN [db |-> R.db,
             heap |-> [R.heap EXCEPT ![r] = SetUpdate(@, locs)],
             new |-> R.new + Cardinality(SetDiff(locs, R.heap[r]))]
    ELSE [db |-> [R.db EXCEPT ![self] = @ \cup {[key |-> e.key, ref |-> e.ref]}],
          heap |-> R.heap,
          new |-> R.new + 1]

\* merge skipping the morphemes self already has
MergeEntrySkipKnown(R, self, e) ==
    IF DictHas(R.db[self], e.key)
    THEN R
    ELSE [db |-> [R.db EXCEPT ![self] = @ \cup {[key |-> e.key, ref |-> e.ref]}],
          heap |-> R.heap,
          new |-> R.new + Cardinality(R.heap[e.ref])]

\* merge counting every location of a known morpheme
MergeEntryCountAll(R, self, e) ==
    IF DictHas(R.db[self], e.key)
    THEN LET r == DictRef(R.db[self], e.key)
             locs == R.heap[e.ref]
         IN [db |-> R.db,
             heap |-> [R.heap EXCEPT ![r] = SetUpdate(@, locs)],
             new |-> R.new + Cardinality(locs)]
    ELSE [db |-> [R.db EXCEPT ![self] = @ \cup {[key |-> e.key, ref |-> e.ref]}],
          heap |-> R.heap,
          new |-> R.new + Cardinality(R.heap[e.ref])]

\* merge: one iteration of the loop over md.db.items(); R = [db, heap, new]
MergeEntry(R, self, e) ==
    IF DictHas(R.db[self], e.key)
    THEN LET r == DictRef(R.db[self], e.key)
             locs == R.heap[e.ref]
         IN [db |-> R.db,
             heap |-> [R.heap EXCEPT ![r] = SetUpdate(@, locs)],
             new |-> R.new + Cardinality(SetDiff(locs, R.heap[r]))]
    ELSE [db |-> [R.db EXCEPT ![self] = @ \cup {[key |-> e.key, ref |-> e.ref]}],
          heap |-> R.heap,
          new |-> R.new + Cardinality(R.heap[e.ref])]

RECURSIVE MergeLoop(_, _, _)
MergeLoop(R, self, items) ==
    IF items = <<>> THEN R
    ELSE MergeLoop(MergeEntry(R, self, items[1]), self, Tail(items))

merge(S, self, md) ==
    MergeLoop([db |-> S.db, heap |-> S.heap, new |-> 0], self, SetToSeq(S.db[md]))

(***************************************************************************)
(* The other Location variants, the analytics and the derived indices.     *)
(***************************************************************************)
Corpus(name, weight) ==
    [kind |-> "Corpus", name |-> name, maturity |-> 0, weight |-> weight]

SeqMax(xs) == CHOOSE x \in Range(xs) : \A y \in Range(xs) : y <= x

AnkiDeck(noteId, fieldName, fieldValue, guid, maturities) ==
    [kind |-> "AnkiDeck", noteId |-> noteId, fieldName |-> fieldName,
     fieldValue |-> fieldValue, guid |-> guid, maturities |-> maturities,
     maturity |-> IF maturities # <<>> THEN SeqMax(maturities) ELSE 0,
     weight |-> 1]

\* Location objects of every variant
MixedLocs ==
    { [obj |-> 3, v |-> TextFile("f", 1, 3)],
      [obj |-> 4, v |-> AnkiDeck(1, "Expression", "v", "g", <<2, 4>>)],
      [obj |-> 5, v |-> Corpus("c", 2)] }

\* getattr(loc, name, default)
GetAttr(loc, name, default) ==
    IF name \in DOMAIN loc.v THEN loc.v[name] ELSE default

\* sum(xs)
RECURSIVE sum(_)
sum(xs) == IF xs = <<>> THEN 0 ELSE xs[1] + sum(Tail(xs))

\* math.sqrt(x): the float is kept as its integer part and whether it is
\* the exact root
RECURSIVE Floor(_, _)
Floor(x, r) == IF (r + 1) * (r + 1) > x THEN r ELSE Floor(x, r + 1)

sqrt(x) == [floor |-> Floor(x, 0), exact |-> Floor(x, 0) * Floor(x, 0) = x]

\* the locations of self.db[m] in iteration order
DbLocs(S, self, m) == SetToSeq(S.heap[DictRef(S.db[self], m)])

frequency(S, self, m) ==
    LET locs == DbLocs(S, self, m)
    IN sum([i \in 1..Len(locs) |-> GetAttr(locs[i], "weight", 1)])

\* maturity with the maturities added up unsquared
maturityPlainSum(S, self, m) ==
    LET locs == DbLocs(S, self, m)
    IN sqrt(sum([i \in 1..Len(locs) |-> GetAttr(locs[i], "maturity", 1)]))

maturity(S, self, m) ==
    LET locs == DbLocs(S, self, m)
    IN sqrt(sum([i \in 1..Len(locs) |->
                    GetAttr(locs[i], "maturity", 1) * GetAttr(locs[i], "maturity", 1)]))

\* the attributes _locDb and _fidDb of an instance: absent until first set
NoAttrs == [locDb |-> None, fidDb |-> None]

\* locDb(recalc): [ret, attrs], attrs being the instance's attributes after
\* the call
locDbCall(S, at, self, recalc) ==
    IF at.locDb.some /\ ~recalc
    THEN [ret |-> at.locDb.v, attrs |-> at]
    ELSE [ret |-> locDb(S, self), attrs |-> [at EXCEPT !.locDb = Some(locDb(S, self))]]

\* the dict fidDb builds from the keys of a locDb: locations without noteId
\* raise AttributeError and are skipped; a later location replaces an
\* earlier one under the same key
Fid(loc) == <<loc.v.noteId, loc.v.guid, loc.v.fieldName>>

RECURSIVE FidLoop(_, _)
FidLoop(d, locs) ==
    IF locs = <<>> THEN d
    ELSE IF "noteId" \notin DOMAIN locs[1].v THEN FidLoop(d, Tail(locs))
    ELSE FidLoop([k \in DOMAIN d \cup {Fid(locs[1])} |->
                     IF k = Fid(locs[1]) THEN locs[1] ELSE d[k]], Tail(locs))

fidDbCall(S, at, self, recalc) ==
    IF at.fidDb.some /\ ~recalc
    THEN [ret |-> at.fidDb.v, attrs |-> at]
    ELSE LET L == locDbCall(S, at, self, TRUE)
             d == FidLoop(EmptyCache, SetToSeq(DOMAIN L.ret))
         IN [ret |-> d, attrs |-> [L.attrs EXCEPT !.fidDb = Some(d)]]

\* clear: self.db = {}; the sets it held are dropped
clear(S, self) ==
    [db |-> [S.db EXCEPT ![self] = {}],
     heap |-> [r \in DOMAIN S.heap |-> IF r[1] = self THEN {} ELSE S.heap[r]]]

\* the log of a read: `at` is the number of calls made when it returned
NoQuery ==
    [op |-> "none", at |-> 0, self |-> "A", recalc |-> TRUE, m |-> <<>>,
     kind |-> "none", ret |-> 0]

InitQuery ==
    /\ attrs = [d \in AllIds |-> NoAttrs]
    /\ q = NoQuery

(***************************************************************************)
(* importFile.  A text file is [readable, lines, bad]: whether codecs.open *)
(* succeeds, its lines with their line ends, and the number of the first   *)
(* line that is not valid UTF-8 (0 when all are).                          *)
(***************************************************************************)
Whitespace == {" ", "\n"}

RECURSIVE lstrip(_)
lstrip(t) == IF t # <<>> /\ Head(t) \in Whitespace THEN lstrip(Tail(t)) ELSE t

RECURSIVE rstrip(_)
rstrip(t) ==
    IF t # <<>> /\ t[Len(t)] \in Whitespace THEN rstrip(SubSeq(t, 1, Len(t) - 1)) ELSE t

strip(t) == rstrip(lstrip(t))

ImportLines == { t \o <<"\n">> : t \in UNION { [1..i -> WordChars] : i \in 0..MaxLen } }

UnreadableFile == [readable |-> FALSE, lines |-> <<>>, bad |-> 0]

ImportFiles ==
    {UnreadableFile} \cup
    UNION { { [readable |-> TRUE, lines |-> ls, bad |-> b] : b \in 0..Len(ls) } :
            ls \in SeqsUpTo(ImportLines, MaxLines) }

\* the k-th TextFile object built for line i by the call whose objects are
\* numbered from base
NewTextFile(base, i, k, path, mty) ==
    [obj |-> base + 10 * i + k, v |-> TextFile(path, i, mty)]

\* lines 283-284 for line i; R = [db, heap, C, kind]
ImportLine(R, self, an, line, i, path, mty, base) ==
    LET Line(G) ==
            IF G.kind # "ok" THEN [R EXCEPT !.C = G.C, !.kind = G.kind]
            ELSE LET S == addMLs([db |-> R.db, heap |-> R.heap], self,
                                 [k \in 1..Len(G.ms) |->
                                     <<G.ms[k], NewTextFile(base, i, k, path, mty)>>])
                 IN [db |-> S.db, heap |-> S.heap, C |-> G.C, kind |-> "ok"]
    IN CHOOSE out \in { Line(G) : G \in {getMorphemes(R.C, an, strip(line), None, 1)} } : TRUE

\* the loop of line 282 from line i on; an exception ends it
RECURSIVE ImportLoop(_, _, _, _, _, _, _, _)
ImportLoop(R, self, an, lines, i, path, mty, base) ==
    IF i > Len(lines) THEN R
    ELSE CHOOSE out \in
            { IF R2.kind # "ok" THEN R2
              ELSE ImportLoop(R2, self, an, lines, i + 1, path, mty, base) :
              R2 \in {ImportLine(R, self, an, lines[i], i, path, mty, base)} } : TRUE

\* importFile decoding and recording line by line
importFileStreamed(S, C, self, file, an, path, mty, base) ==
    LET R == [db |-> S.db, heap |-> S.heap, C |-> C, kind |-> "ok"]
    IN IF ~file.readable THEN [R EXCEPT !.kind = "IOError"]
       ELSE IF file.bad # 0
       THEN [ImportLoop(R, self, an, SubSeq(file.lines, 1, file.bad - 1), 1,
                        path, mty, base)
             EXCEPT !.kind = "UnicodeDecodeError"]
       ELSE ImportLoop(R, self, an, file.lines, 1, path, mty, base)

importFile(S, C, self, file, an, path, mty, base) ==
    LET R == [db |-> S.db, heap |-> S.heap, C |-> C, kind |-> "ok"]
    IN IF ~file.readable THEN [R EXCEPT !.kind = "IOError"]
       ELSE IF file.bad # 0 THEN [R EXCEPT !.kind = "UnicodeDecodeError"]
       ELSE ImportLoop(R, self, an, file.lines, 1, path, mty, base)

\* the log of a call that used a file: `at` is the number of calls made
\* when it returned
NoFileCall ==
    [op |-> "none", at |-> 0, self |-> "A", kind |-> "none", arg |-> <<>>]

(***************************************************************************)
(* save, load and the constructor.  A file is [state, data]: no file at    *)
(* the path, a file that is not a gzip stream ("corrupt"), a gzip stream   *)
(* that ends before the pickle does ("partial"), or a complete one, whose  *)
(* data is the pickled dict.  pickle keeps the object graph: a Location    *)
(* object held by several sets is one object after loading, and every      *)
(* loaded object is a new one.  The paths have an existing directory, and  *)
(* the instance that loads shares no set with another instance.            *)
(***************************************************************************)
NoFile == [state |-> "missing", data |-> {}]
CorruptFile == [state |-> "corrupt", data |-> {}]
PartialFile == [state |-> "partial", data |-> {}]
Paths == {"p"}

\* pickle.dump( self.db, f, -1 ): the dict with its sets
dump(S, self) == { [key |-> e.key, locs |-> S.heap[e.ref]] : e \in S.db[self] }

\* the objects pickle.load creates, numbered in the order of the pickled ones
LoadBase == 10
Reborn(l, data) ==
    LET objs == UNION { { x.obj : x \in e.locs } : e \in data }
    IN [obj |-> LoadBase + Cardinality({ o \in objs : o <= l.obj }), v |-> l.v]

\* self.db = <the dict pickle.load returned>
AssignDb(S, self, data) ==
    [db |-> [S.db EXCEPT ![self] = { [key |-> e.key, ref |-> NewRef(self, e.key)] : e \in data }],
     heap |-> [r \in DOMAIN S.heap |->
                 IF r[1] # self THEN S.heap[r]
                 ELSE UNION { { Reborn(l, data) : l \in e.locs } :
                              e \in { x \in data : NewRef(self, x.key) = r } }]]

\* save: gzip.open( path, 'wb' ), pickle.dump, f.close()
save(S, F, self, path) ==
    [F EXCEPT ![path] = [state |-> "valid", data |-> dump(S, self)]]

\* the file a process leaves that dies inside save: before gzip.open, after
\* it (the file is truncated and the stream unfinished), or after f.close()
saveCrashed(S, F, self, path) ==
    { F, [F EXCEPT ![path] = PartialFile], save(S, F, self, path) }

\* gzip.open( path, 'rb' ), pickle.load( f ): FileNotFoundError and
\* BadGzipFile are IOError (OSError), the EOFError of an unfinished stream
\* is not
ReadFile(f) ==
    IF f.state = "missing" THEN "IOError"
    ELSE IF f.state = "corrupt" THEN "IOError"
    ELSE IF f.state = "partial" THEN "EOFError"
    ELSE "ok"

\* a load that empties the instance before it reads the file
loadClearing(S, F, self, path) ==
    IF ReadFile(F[path]) # "ok"
    THEN [kind |-> ReadFile(F[path]), S |-> AssignDb(S, self, {})]
    ELSE [kind |-> "ok", S |-> AssignDb(S, self, F[path].data)]

\* load: self.db is assigned when pickle.load has returned
load(S, F, self, path) ==
    IF ReadFile(F[path]) # "ok"
    THEN [kind |-> ReadFile(F[path]), S |-> S]
    ELSE [kind |-> "ok", S |-> AssignDb(S, self, F[path].data)]

\* countByType
countByType(S, self) ==
    [p \in { e.key.pos : e \in S.db[self] } |->
        Cardinality({ e \in S.db[self] : e.key.pos = p })]

\* analyze: the attributes posBreakdown and count
analyze(S, self) ==
    [posBreakdown |-> countByType(S, self), count |-> Cardinality(S.db[self])]

NotAnalyzed == [posBreakdown |-> <<>>, count |-> -1]

\* MorphDb( path, ignoreErrors ): [kind, S, analyzed], S holding the new
\* instance under the name self; no path is the path ""
MorphDb(S, F, self, path, ignoreErrors) ==
    LET E == AssignDb(S, self, {})
        L == IF path # "" THEN load(E, F, self, path) ELSE [kind |-> "ok", S |-> E]
    IN IF L.kind = "ok" \/ (L.kind = "IOError" /\ ignoreErrors)
       THEN [kind |-> "ok", S |-> L.S, analyzed |-> analyze(L.S, self)]
       ELSE [kind |-> L.kind, S |-> L.S, analyzed |-> NotAnalyzed]

(***************************************************************************)
(* The database state machine.                                             *)
(***************************************************************************)
Store == [db |-> db, heap |-> heap]

InitDb ==
    /\ db = [d \in AllIds |-> {}]
    /\ heap = [r \in Refs |-> {}]
    /\ ops = 0
    /\ last = [op |-> "new", self |-> "A", other |-> "A", ret |-> 0, mls |-> {},
               x |-> {}, y |-> {}]

\* `last` is the log of the latest call: the operation, its receiver and
\* argument database, the value it returned and, for addMLs, the pairs it
\* was handed.
Log(op, self, other, ret, mls) ==
    [op |-> op, self |-> self, other |-> other, ret |-> ret, mls |-> mls,
     x |-> {}, y |-> {}]

AddMLs(self) ==
    \E mls \in SeqsUpTo(DbMorphemes \X LocObjs, MaxPairs) :
        LET S == addMLs(Store, self, mls)
        IN /\ ops < MaxOps
           /\ db' = S.db
           /\ heap' = S.heap
           /\ ops' = ops + 1
           /\ last' = Log("addMLs", self, self, 0, Range(mls))
           /\ UNCHANGED <<cacheVars, queryVars, procVars, fileVars>>

AddMsL(self) ==
    \E ms \in SeqsUpTo(DbMorphemes, MaxMs), loc \in LocObjs :
        LET S == addMsL(Store, self, ms, loc)
        IN /\ ops < MaxOps
           /\ db' = S.db
           /\ heap' = S.heap
           /\ ops' = ops + 1
           /\ last' = Log("addMsL", self, self, 0, {})
           /\ UNCHANGED <<cacheVars, queryVars, procVars, fileVars>>

AddMLs1(self) ==
    \E m \in DbMorphemes, locs \in SUBSET LocObjs :
        LET S == addMLs1(Store, self, m, locs)
        IN /\ ops < MaxOps
           /\ db' = S.db
           /\ heap' = S.heap
           /\ ops' = ops + 1
           /\ last' = Log("addMLs1", self, self, 0, {})
           /\ UNCHANGED <<cacheVars, queryVars, procVars, fileVars>>

AddFromLocDb(self) ==
    \E src \in DbIds :
        LET S == addFromLocDb(Store, self, locDb(Store, src))
        IN /\ ops < MaxOps
           /\ db' = S.db
           /\ heap' = S.heap
           /\ ops' = ops + 1
           /\ last' = Log("addFromLocDb", self, src, 0, {})
           /\ UNCHANGED <<cacheVars, queryVars, procVars, fileVars>>

Merge(self) ==
    \E md \in DbIds :
        LET S == merge(Store, self, md)
        IN /\ ops < MaxOps
           /\ db' = S.db
           /\ heap' = S.heap
           /\ ops' = ops + 1
           /\ last' = Log("merge", self, md, S.new, {})
           /\ UNCHANGED <<cacheVars, queryVars, procVars, fileVars>>

\* a new instance x given, through addMLs1, a new set with the locations
\* of every morpheme of a
RECURSIVE CopyLoop(_, _, _)
CopyLoop(S, x, items) ==
    IF items = <<>> THEN S
    ELSE CopyLoop(addMLs1(S, x, items[1].key, S.heap[items[1].ref]), x, Tail(items))

CopyOf(S, x, a) == CopyLoop(S, x, SetToSeq(S.db[a]))

\* the copy-and-merge experiment: X is a copy of a merged with b, Y a copy
\* of b merged with a; both are dropped afterwards and their contents logged
MergeCopies(a) ==
    \E b \in DbIds :
        LET X == merge(CopyOf(Store, "X", a), "X", b)
            Y == merge(CopyOf(Store, "Y", b), "Y", a)
        IN /\ ops < MaxOps
           /\ ops' = ops + 1
           /\ last' = [Log("mergeCopies", a, b, X.new, {}) EXCEPT
                           !.x = View(X.db, X.heap, "X"),
                           !.y = View(Y.db, Y.heap, "Y")]
           /\ UNCHANGED <<db, heap>>
           /\ UNCHANGED <<cacheVars, queryVars, procVars, fileVars>>

NextDb ==
    \E self \in DbIds :
        \/ AddMLs(self)
        \/ AddMsL(self)
        \/ AddMLs1(self)
        \/ AddFromLocDb(self)
        \/ Merge(self)
        \/ MergeCopies(self)

NextCache == GetMorphemes

(***************************************************************************)
(* The state machine of the indices and analytics of a MorphDb: locations  *)
(* of every variant are recorded, the database is cleared, and the indices *)
(* and statistics are read.  `q` logs the latest read.                     *)
(***************************************************************************)
AddMsLMixed(self) ==
    \E ms \in SeqsUpTo(DbMorphemes, MaxMs), loc \in MixedLocs :
        LET S == addMsL(Store, self, ms, loc)
        IN /\ ops < MaxOps
           /\ db' = S.db
           /\ heap' = S.heap
           /\ ops' = ops + 1
           /\ last' = Log("addMsL", self, self, 0, {})
           /\ UNCHANGED <<cacheVars, queryVars, procVars, fileVars>>

Clear(self) ==
    LET S == clear(Store, self)
    IN /\ ops < MaxOps
       /\ db' = S.db
       /\ heap' = S.heap
       /\ ops' = ops + 1
       /\ last' = Log("clear", self, self, 0, {})
       /\ UNCHANGED <<cacheVars, queryVars, procVars, fileVars>>

LocDb(self) ==
    \E recalc \in BOOLEAN :
        LET R == locDbCall(Store, attrs[self], self, recalc)
        IN /\ ops < MaxOps
           /\ ops' = ops + 1
           /\ attrs' = [attrs EXCEPT ![self] = R.attrs]
           /\ q' = [op |-> "locDb", at |-> ops + 1, self |-> self, recalc |-> recalc, m |-> <<>>,
                    kind |-> "ok", ret |-> R.ret]
           /\ UNCHANGED <<db, heap, last, cacheVars, procVars, fileVars>>

FidDb(self) ==
    \E recalc \in BOOLEAN :
        LET R == fidDbCall(Store, attrs[self], self, recalc)
        IN /\ ops < MaxOps
           /\ ops' = ops + 1
           /\ attrs' = [attrs EXCEPT ![self] = R.attrs]
           /\ q' = [op |-> "fidDb", at |-> ops + 1, self |-> self, recalc |-> recalc, m |-> <<>>,
                    kind |-> "ok", ret |-> R.ret]
           /\ UNCHANGED <<db, heap, last, cacheVars, procVars, fileVars>>

\* frequency(m) and maturity(m); self.db[m] raises KeyError for an absent m
Frequency(self) ==
    \E m \in DbMorphemes :
        /\ ops < MaxOps
        /\ ops' = ops + 1
        /\ q' = IF DictHas(db[self], m)
                THEN [op |-> "frequency", at |-> ops + 1, self |-> self, recalc |-> TRUE, m |-> m,
                      kind |-> "ok", ret |-> frequency(Store, self, m)]
                ELSE [op |-> "frequency", at |-> ops + 1, self |-> self, recalc |-> TRUE, m |-> m,
                      kind |-> "KeyError", ret |-> 0]
        /\ UNCHANGED <<db, heap, last, attrs, cacheVars, procVars, fileVars>>

Maturity(self) ==
    \E m \in DbMorphemes :
        /\ ops < MaxOps
        /\ ops' = ops + 1
        /\ q' = IF DictHas(db[self], m)
                THEN [op |-> "maturity", at |-> ops + 1, self |-> self, recalc |-> TRUE, m |-> m,
                      kind |-> "ok", ret |-> maturity(Store, self, m)]
                ELSE [op |-> "maturity", at |-> ops + 1, self |-> self, recalc |-> TRUE, m |-> m,
                      kind |-> "KeyError", ret |-> 0]
        /\ UNCHANGED <<db, heap, last, attrs, cacheVars, procVars, fileVars>>

\* the reads and the statistics concern one instance at a time
NextIndex ==
    \E self \in {"A"} :
        \/ AddMsLMixed(self)
        \/ Clear(self)
        \/ LocDb(self)
        \/ FidDb(self)
        \/ Frequency(self)
        \/ Maturity(self)

(***************************************************************************)
(* The analyzer process (morph/morphemizer.py, mecab and interact).        *)
(* interact runs in the calling thread: it writes the expression and a     *)
(* newline to the buffered stdin of the one MeCab process, flushes, and    *)
(* reads one line of its stdout.  MeCab answers the lines it receives in   *)
(* order.  A thread is at "idle", "write", "flush", "read" or "done".      *)
(***************************************************************************)
Threads == {1, 2}
Exprs == {<<"x">>, <<"y">>}

\* the line MeCab prints for an expression
MecabLine(expr) == <<"node">> \o expr

IdleThread == [pc |-> "idle", expr |-> <<>>, ret |-> <<>>]

InitProc ==
    /\ proc = [buf |-> <<>>, stdin |-> <<>>, stdout |-> <<>>, started |-> 0]
    /\ th = [t \in Threads |-> IdleThread]

\* a caller enters interact(expr); p = mecab()
InteractCall(t) ==
    \E expr \in Exprs :
        /\ th[t].pc \in {"idle", "done"}
        /\ proc.started < MaxInteracts
        /\ th' = [th EXCEPT ![t] = [pc |-> "write", expr |-> expr, ret |-> <<>>]]
        /\ proc' = [proc EXCEPT !.started = @ + 1]
        /\ UNCHANGED <<dbVars, cacheVars, queryVars, fileVars>>

\* p.stdin.write( expr + b'\n' )
InteractWrite(t) ==
    /\ th[t].pc = "write"
    /\ proc' = [proc EXCEPT !.buf = Append(@, th[t].expr)]
    /\ th' = [th EXCEPT ![t].pc = "flush"]
    /\ UNCHANGED <<dbVars, cacheVars, queryVars, fileVars>>

\* p.stdin.flush(): everything buffered goes down the pipe
InteractFlush(t) ==
    /\ th[t].pc = "flush"
    /\ proc' = [proc EXCEPT !.stdin = @ \o proc.buf, !.buf = <<>>]
    /\ th' = [th EXCEPT ![t].pc = "read"]
    /\ UNCHANGED <<dbVars, cacheVars, queryVars, fileVars>>

\* p.stdout.readline(): blocks until a line is there
InteractRead(t) ==
    /\ th[t].pc = "read"
    /\ proc.stdout # <<>>
    /\ proc' = [proc EXCEPT !.stdout = Tail(@)]
    /\ th' = [th EXCEPT ![t].pc = "done", ![t].ret = Head(proc.stdout)]
    /\ UNCHANGED <<dbVars, cacheVars, queryVars, fileVars>>

\* the MeCab process reads a line and prints its analysis
MecabStep ==
    /\ proc.stdin # <<>>
    /\ proc' = [proc EXCEPT !.stdin = Tail(@),
                            !.stdout = Append(@, MecabLine(Head(proc.stdin)))]
    /\ UNCHANGED th
    /\ UNCHANGED <<dbVars, cacheVars, queryVars, fileVars>>

NextProc ==
    \/ \E t \in Threads :
          \/ InteractCall(t)
          \/ InteractWrite(t)
          \/ InteractFlush(t)
          \/ InteractRead(t)
    \/ MecabStep

(***************************************************************************)
(* The import state machine: files are imported into one instance through  *)
(* the extraction cache.  The log keeps the analyzer, the maturity and the *)
(* file with its lines stripped.                                           *)
(***************************************************************************)
ImportMaturities == {1}

ImportFile(self) ==
    \E file \in ImportFiles, an \in Analyzers, mty \in ImportMaturities :
        \E R \in {importFile(Store, CacheState, self, file, an, "f", mty, 100 * (ops + 1))} :
           /\ ops < MaxImports
           /\ db' = R.db
           /\ heap' = R.heap
           /\ cache' = R.C.cache
           /\ n' = R.C.n
           /\ disk' = R.C.disk
           /\ store' = R.C.store
           /\ ops' = ops + 1
           /\ fcall' = [op |-> "importFile", at |-> ops + 1, self |-> self, kind |-> R.kind,
                        arg |-> [an |-> an, maturity |-> mty, path |-> "f",
                                 readable |-> file.readable, bad |-> file.bad,
                                 lines |-> [i \in 1..Len(file.lines) |-> strip(file.lines[i])]]]
           /\ UNCHANGED <<last, rules, call, calls, files, queryVars, procVars>>

NextImport == \E self \in {"A"} : ImportFile(self)

(***************************************************************************)
(* The persistence state machine: one instance is filled, saved, loaded    *)
(* and constructed from a file; the process may die inside save and be     *)
(* started again with empty instances.                                     *)
(***************************************************************************)
Save(self) ==
    \E path \in Paths :
        /\ ops < MaxOps
        /\ files' = save(Store, files, self, path)
        /\ ops' = ops + 1
        /\ fcall' = [op |-> "save", at |-> ops + 1, self |-> self, kind |-> "ok",
                     arg |-> [path |-> path]]
        /\ UNCHANGED <<db, heap, last, cacheVars, queryVars, procVars>>

SaveCrash(self) ==
    \E path \in Paths :
        \E F \in saveCrashed(Store, files, self, path) :
            /\ ops < MaxOps
            /\ files' = F
            /\ db' = [d \in AllIds |-> {}]
            /\ heap' = [r \in Refs |-> {}]
            /\ attrs' = [d \in AllIds |-> NoAttrs]
            /\ ops' = ops + 1
            /\ fcall' = [op |-> "crash", at |-> ops + 1, self |-> self, kind |-> "killed",
                         arg |-> [path |-> path, db |-> dump(Store, self)]]
            /\ UNCHANGED <<last, q, cacheVars, procVars>>

Load(self) ==
    \E path \in Paths :
        \E R \in {load(Store, files, self, path)} :
            /\ ops < MaxOps
            /\ db' = R.S.db
            /\ heap' = R.S.heap
            /\ ops' = ops + 1
            /\ fcall' = [op |-> "load", at |-> ops + 1, self |-> self, kind |-> R.kind,
                         arg |-> [path |-> path]]
            /\ UNCHANGED <<last, files, cacheVars, queryVars, procVars>>

\* self = MorphDb( path, ignoreErrors ): the name keeps the instance it had
\* when the constructor raises
Construct(self) ==
    \E path \in {""} \cup Paths, ignoreErrors \in BOOLEAN :
        \E R \in {MorphDb(Store, files, self, path, ignoreErrors)} :
            /\ ops < MaxOps
            /\ db' = IF R.kind = "ok" THEN R.S.db ELSE db
            /\ heap' = IF R.kind = "ok" THEN R.S.heap ELSE heap
            /\ attrs' = IF R.kind = "ok" THEN [attrs EXCEPT ![self] = NoAttrs] ELSE attrs
            /\ ops' = ops + 1
            /\ fcall' = [op |-> "MorphDb", at |-> ops + 1, self |-> self, kind |-> R.kind,
                         arg |-> [path |-> path, ignoreErrors |-> ignoreErrors,
                                  db |-> dump(R.S, self), analyzed |-> R.analyzed]]
            /\ UNCHANGED <<last, q, files, cacheVars, procVars>>

NextFile ==
    \E self \in {"A"} :
        \/ AddMLs(self)
        \/ Save(self)
        \/ SaveCrash(self)
        \/ Load(self)
        \/ Construct(self)

(***************************************************************************)
(* The specifications.  Init is the state of a process that has imported   *)
(* the modules and constructed its MorphDb instances; every specification  *)
(* but that of the extraction cache runs with no replace rules configured. *)
(***************************************************************************)
InitFiles ==
    /\ files = [p \in Paths |-> NoFile]
    /\ fcall = NoFileCall

Init == InitDb /\ InitCache /\ InitQuery /\ InitProc /\ InitFiles

InitNoRules == Init /\ rules = NoRules

SpecDb == InitNoRules /\ [][NextDb]_vars

SpecCache == Init /\ [][NextCache]_vars

SpecIndex == InitNoRules /\ [][NextIndex]_vars

SpecProc == InitNoRules /\ [][NextProc]_vars

SpecImport == InitNoRules /\ [][NextImport]_vars

InitStored == InitDb /\ InitStore /\ InitQuery /\ InitProc /\ InitFiles

SpecStore == InitStored /\ [][NextStore]_vars

\* the file at a path is absent or was left there by something else
InitDisk ==
    /\ files \in [Paths -> {NoFile, CorruptFile}]
    /\ fcall = NoFileCall

InitOnDisk == InitDb /\ InitCache /\ rules = NoRules /\ InitQuery /\ InitProc /\ InitDisk

SpecFile == InitOnDisk /\ [][NextFile]_vars

TypeDb ==
    /\ \A d \in DbIds : \A e \in db[d] : e.key \in DbMorphemes /\ e.ref \in Refs
    /\ \A d \in ScratchIds : db[d] = {}
    /\ \A r \in Refs : heap[r] \subseteq LocObjs

(***************************************************************************)
(* Properties of MorphDb.  In a step the unprimed store is the state       *)
(* before the call and the primed store the state after it.                *)
(***************************************************************************)
MergeStep == ops' = ops + 1 /\ last'.op = "merge"

\* C1: after A.merge(B) the location set of every morpheme in A is the union
\* of what A held and what B held for it, and A has no key that neither had.
MergeUnion ==
    [][MergeStep =>
        LET a == last'.self
            b == last'.other
        IN /\ \A m \in DbMorphemes :
                Locs(db', heap', a, m) = Locs(db, heap, a, m) \cup Locs(db, heap, b, m)
           /\ Keys(db', a) = Keys(db, a) \cup Keys(db, b)]_vars

\* a merge of two distinct databases has just united two different non-empty
\* location sets of one morpheme, held in two set objects
MergeUnionSeen ==
    /\ last.op = "merge"
    /\ last.self # last.other
    /\ last.ret > 0
    /\ \E ea \in db[last.self], eb \in db[last.other] :
          /\ Ident(ea.key) = Ident(eb.key)
          /\ ea.ref # eb.ref
          /\ heap[eb.ref] # {}
          /\ heap[eb.ref] # heap[ea.ref]
          /\ heap[eb.ref] \subseteq heap[ea.ref]

\* C5: A.merge(B) leaves B's keys and every location set of B as they were.
MergeFrame ==
    [][MergeStep =>
        LET b == last'.other
        IN /\ Keys(db', b) = Keys(db, b)
           /\ \A m \in DbMorphemes : Locs(db', heap', b, m) = Locs(db, heap, b, m)]_vars

\* a merge has just added locations to a morpheme both databases hold, and
\* the argument still holds fewer locations for it than the receiver
MergeFrameSeen ==
    /\ last.op = "merge"
    /\ last.self # last.other
    /\ last.ret > 0
    /\ \E ea \in db[last.self], eb \in db[last.other] :
          /\ Ident(ea.key) = Ident(eb.key)
          /\ Cardinality(heap[eb.ref]) = 1
          /\ Cardinality(heap[ea.ref]) = 2

\* C6: merge returns the number of (morpheme, location) pairs of B that A did
\* not hold, which is the growth of the number of pairs in A.
MergeCount ==
    [][MergeStep =>
        LET a == last'.self
            b == last'.other
        IN /\ last'.ret = Cardinality(Pairs(db, heap, b) \ Pairs(db, heap, a))
           /\ last'.ret = Cardinality(Pairs(db', heap', a)) - Cardinality(Pairs(db, heap, a))]_vars

\* a merge has just returned 2 for the two locations of a single morpheme
MergeCountSeen ==
    /\ last.op = "merge"
    /\ last.ret = 2
    /\ Cardinality(Keys(db, last.other)) = 1

\* C7: merging B into a fresh copy of A and A into a fresh copy of B give the
\* same keys with the same location set each.
MergeCommutes ==
    last.op = "mergeCopies" => last.x = last.y

\* the experiment ran on two databases with different contents that share a
\* morpheme and differ in its locations
MergeCommutesSeen ==
    /\ last.op = "mergeCopies"
    /\ last.self # last.other
    /\ \E m \in DbMorphemes :
          /\ Locs(db, heap, last.self, m) # {}
          /\ Locs(db, heap, last.other, m) # {}
          /\ Locs(db, heap, last.self, m) # Locs(db, heap, last.other, m)
    /\ Keys(db, last.self) # Keys(db, last.other)

\* C8: merging a database into one with identical contents returns 0 and
\* changes nothing in it, and repeating a merge right away returns 0.
MergeIdempotent ==
    [][MergeStep =>
        LET a == last'.self
            b == last'.other
        IN /\ View(db, heap, a) = View(db, heap, b) =>
                 /\ last'.ret = 0
                 /\ View(db', heap', a) = View(db, heap, a)
           /\ (last.op = "merge" /\ last.self = a /\ last.other = b) => last'.ret = 0]_vars

\* a merge between two databases that hold the same locations for a
\* morpheme, in two set objects, has just returned 0
MergeIdempotentSeen ==
    /\ last.op = "merge"
    /\ last.ret = 0
    /\ last.self # last.other
    /\ View(db, heap, last.self) = View(db, heap, last.other)
    /\ \E ea \in db[last.self], eb \in db[last.other] :
          /\ Ident(ea.key) = Ident(eb.key)
          /\ ea.ref # eb.ref
          /\ heap[ea.ref] # {}

\* C4: a morpheme's location set has one member per physical occurrence: no
\* two members with the same variant and fields.
LocationsByValue ==
    \A d \in DbIds : \A e \in db[d] :
        \A l1, l2 \in heap[e.ref] : l1.v = l2.v => l1 = l2

\* C10: morphemes that agree on (base, pos, subPos, read) are equal and hash
\* alike whatever their inflected form; a database holds one key for them,
\* and the locations added under any of them are united in its set.
MorphemeIdentity ==
    [][ops' = ops + 1 =>
        LET self == last'.self
            src == last'.other
        IN /\ \A m, o \in DbMorphemes :
                Ident(m) = Ident(o) => MEq(m, o) /\ MHash(m) = MHash(o)
           /\ \A d \in DbIds : \A e1, e2 \in db'[d] :
                Ident(e1.key) = Ident(e2.key) => e1 = e2
           /\ last'.op = "addMLs" =>
                \A m \in DbMorphemes :
                    Locs(db', heap', self, m) =
                        Locs(db, heap, self, m) \cup
                        { l \in LocObjs : \E o \in DbMorphemes :
                              Ident(o) = Ident(m) /\ <<o, l>> \in last'.mls }
           /\ last'.op \in {"addFromLocDb", "merge"} =>
                \A m \in DbMorphemes :
                    Locs(db', heap', self, m) =
                        Locs(db, heap, self, m) \cup Locs(db, heap, src, m)]_vars

\* a location was just added under a morpheme whose inflected form differs
\* from that of the key the database holds, next to a location it already had
MorphemeIdentitySeen ==
    /\ last.op = "addMLs"
    /\ \E p \in last.mls : \E e \in db[last.self] :
          /\ Ident(e.key) = Ident(p[1])
          /\ e.key.inflected # p[1].inflected
          /\ p[2] \in heap[e.ref]
          /\ Cardinality(heap[e.ref]) = 2

\* C11: in every state reached from empty databases by the mutation
\* operations, every morpheme key of db maps to a non-empty set of locations.
NonEmptyLocations ==
    \A d \in DbIds : \A e \in db[d] : heap[e.ref] # {}

\* C12: a call of locDb or fidDb, with recalc true or false, returns the index
\* computed from the db of that moment, whatever mutations came before it.
IndexFresh ==
    /\ (q.op = "locDb" /\ q.at = ops) => q.ret = locDb(Store, q.self)
    /\ (q.op = "fidDb" /\ q.at = ops) =>
          q.ret = FidLoop(EmptyCache, SetToSeq(DOMAIN locDb(Store, q.self)))

\* the total of f over the locations self holds for the morpheme of the
\* latest read
RECURSIVE Total(_, _)
Total(T, name) ==
    IF T = {} THEN 0
    ELSE LET l == CHOOSE x \in T : TRUE
         IN (IF name = "weight" THEN l.v.weight ELSE l.v.maturity * l.v.maturity)
            + Total(T \ {l}, name)

ReadLocs == Locs(db, heap, q.self, q.m)

\* C20: maturity(m) is the Euclidean norm of the maturities of the locations
\* of m (its square is the sum of their squares), and frequency(m) is the sum
\* of their weights.
MaturityNorm ==
    /\ (q.op = "maturity" /\ q.at = ops /\ q.kind = "ok") =>
          /\ q.ret.floor * q.ret.floor <= Total(ReadLocs, "maturity")
          /\ Total(ReadLocs, "maturity") < (q.ret.floor + 1) * (q.ret.floor + 1)
          /\ q.ret.exact <=> q.ret.floor * q.ret.floor = Total(ReadLocs, "maturity")
    /\ (q.op = "frequency" /\ q.at = ops /\ q.kind = "ok") =>
          q.ret = Total(ReadLocs, "weight")

\* maturity has just returned 5 for a morpheme whose locations have the
\* maturities 3 and 4 (and 0)
MaturityNormSeen ==
    /\ q.op = "maturity"
    /\ q.at = ops
    /\ q.kind = "ok"
    /\ { l.v.maturity : l \in ReadLocs } = {0, 3, 4}
    /\ q.ret = [floor |-> 5, exact |-> TRUE]

\* C13: with two or more threads in interact, every call returns the line
\* MeCab printed for its own expression.
InteractPaired ==
    \A t \in Threads : th[t].pc = "done" => th[t].ret = MecabLine(th[t].expr)

ImportStep == ops' = ops + 1 /\ fcall'.op = "importFile" /\ fcall'.at = ops + 1

\* the Location objects an instance holds
HeldLocs(D, H, d) == UNION { H[e.ref] : e \in D[d] }

\* C14: importFile records every morpheme of line i at the TextFile location
\* (path, i, maturity), and adds one distinct location per line that yielded
\* morphemes, however many morphemes the line produced.
ImportOneLocationPerLine ==
    [][(ImportStep /\ fcall'.kind = "ok") =>
        LET a == fcall'.arg
            self == fcall'.self
            new == HeldLocs(db', heap', self) \ HeldLocs(db, heap, self)
            yielding == { i \in 1..Len(a.lines) : getMorphemesFromExpr(a.an, a.lines[i]) # <<>> }
        IN /\ \A i \in 1..Len(a.lines) :
                \A m \in Range(getMorphemesFromExpr(a.an, a.lines[i])) :
                    \E l \in Locs(db', heap', self, m) \cap new :
                        l.v = TextFile(a.path, i, a.maturity)
           /\ { l.v.lineNo : l \in new } = yielding
           /\ Cardinality(new) = Cardinality(yielding)]_vars

\* C15: an importFile whose file cannot be opened or decoded fails, and leaves
\* the keys and the location sets of the instance as they were.
FailedImportFrame ==
    [][(ImportStep /\ (~fcall'.arg.readable \/ fcall'.arg.bad # 0)) =>
        /\ fcall'.kind \in {"IOError", "UnicodeDecodeError"}
        /\ db' = db
        /\ heap' = heap]_vars

\* an import has just failed on the second line of a file whose first line
\* holds a morpheme, in an instance that already had contents
FailedImportSeen ==
    /\ fcall.op = "importFile"
    /\ fcall.at = ops
    /\ fcall.kind = "UnicodeDecodeError"
    /\ fcall.arg.bad = 2
    /\ getMorphemesFromExpr(fcall.arg.an, fcall.arg.lines[1]) # <<>>
    /\ db[fcall.self] # {}

(***************************************************************************)
(* Properties of the extraction cache.                                     *)
(***************************************************************************)
Called == call.kind # "none"

\* what the logged call returns when it starts from an empty cache
FromEmptyCache ==
    getMorphemes([cache |-> EmptyCache, n |-> 0, disk |-> EmptyCache, rules |-> rules,
                  store |-> [file |-> "missing", writable |-> TRUE, loaded |-> TRUE]],
                 call.an, call.expression, call.note_tags, 1)

\* C2: whatever calls came before, a call returns what it would return from
\* an empty cache: the same outcome and the same morpheme sequence.
CachePurity ==
    Called => call.kind = FromEmptyCache.kind /\ call.ms = FromEmptyCache.ms

\* the logged call missed the cache with tags and rules present and the loop
\* over the rules ran to its end
NoRuleApplies ==
    /\ Called
    /\ ~call.hit
    /\ call.note_tags.some
    /\ rules.some
    /\ FirstRule(rules.v, call.expression, call.note_tags.v) = 0

\* C3: on a miss with note tags and rules present and no applicable rule,
\* the call returns the analyzer's morphemes for the text and does not fail.
NoRuleFallback ==
    NoRuleApplies =>
        /\ call.kind = "ok"
        /\ call.ms = getMorphemesFromExpr(call.an, call.expression)

\* some rule passes its tag filter and matches, and is rejected only because
\* a span is as long as the text
GuardRejects ==
    \E i \in 1..Len(rules.v) :
        /\ rules.v[i].filter_tags \subseteq call.note_tags.v
        /\ Len(reSplit(rules.v[i].regex, call.expression)) = 2
        /\ ~Applies(rules.v[i], call.expression, call.note_tags.v)

\* the recursion of a call is bounded by the length of its text
RecursionBounded ==
    Called => call.kind # "RecursionError" /\ call.maxd <= Len(call.expression) + 1

\* C9: every call terminates, its nested calls being on ever shorter texts,
\* and a call whose only matching rules are rejected by the span-length
\* guard returns the analyzer's morphemes for the text.
GetMorphemesTerminates ==
    /\ RecursionBounded
    /\ (NoRuleApplies /\ GuardRejects) =>
           /\ call.kind = "ok"
           /\ call.ms = getMorphemesFromExpr(call.an, call.expression)

\* C16: when the cache file is corrupt at startup the cache starts empty and
\* the call returns what it returns from an empty cache; the failure of the
\* storage does not reach the caller.
CorruptCacheStartsEmpty ==
    (Called /\ calls = 1 /\ store.file = "corrupt") =>
        /\ store.loaded
        /\ call.kind = FromEmptyCache.kind
        /\ call.ms = FromEmptyCache.ms

\* a call stores its FlushEvery-th result
FlushStep ==
    /\ calls' = calls + 1
    /\ \E k \in (n + 1)..n' : k % FlushEvery = 0

\* C17: when the periodic flush cannot write the file, the call that
\* triggered it still returns its morphemes, and the cache keeps every entry
\* and the one just stored.
FlushFailureSwallowed ==
    [][(FlushStep /\ ~store.writable) =>
        LET morph_key == <<getDescription(call'.an), call'.expression>>
        IN /\ call'.kind = "ok"
           /\ morph_key \in DOMAIN cache'
           /\ call'.ms = cache'[morph_key]
           /\ \A k \in DOMAIN cache : k \in DOMAIN cache' /\ cache'[k] = cache[k]]_vars

\* a hit on an entry stored under other note tags returns the stored value
\* although both this call and the same call on an empty cache succeed
PureWhenBothReturn ==
    (Called /\ call.kind = "ok" /\ FromEmptyCache.kind = "ok") => call.ms = FromEmptyCache.ms

FileStep(op) == ops' = ops + 1 /\ fcall'.op = op /\ fcall'.at = ops + 1

\* C18: a load that fails leaves db and every location set as they were;
\* a load that succeeds leaves exactly the saved dict; constructing from a
\* missing file raises when ignoreErrors is false, and gives an empty,
\* analyzed instance when it is true.
FailedLoadFrame ==
    [][/\ (FileStep("load") /\ fcall'.kind # "ok") => (db' = db /\ heap' = heap)
       /\ (FileStep("load") /\ fcall'.kind = "ok") =>
             View(db', heap', fcall'.self)
               = { <<Ident(e.key), { Reborn(l, files[fcall'.arg.path].data) : l \in e.locs }>> :
                     e \in files[fcall'.arg.path].data }
       /\ (FileStep("MorphDb") /\ fcall'.arg.path # ""
              /\ files[fcall'.arg.path].state = "missing") =>
             IF fcall'.arg.ignoreErrors
             THEN /\ fcall'.kind = "ok"
                  /\ db'[fcall'.self] = {}
                  /\ fcall'.arg.analyzed = [posBreakdown |-> <<>>, count |-> 0]
             ELSE /\ fcall'.kind = "IOError"
                  /\ fcall'.arg.db = {}]_vars

\* a load has failed on an instance that holds morphemes
FailedLoadSeen ==
    /\ fcall.op = "load" /\ fcall.at = ops
    /\ fcall.kind # "ok"
    /\ db[fcall.self] # {}

\* C19: when the process dies inside save over a complete file, the file
\* holds afterwards the complete previous dict or the complete new one.
SaveCrashAtomic ==
    [][(FileStep("crash") /\ files[fcall'.arg.path].state = "valid") =>
          \/ files'[fcall'.arg.path] = files[fcall'.arg.path]
          \/ files'[fcall'.arg.path] = [state |-> "valid", data |-> fcall'.arg.db]]_vars

\* a call misses the cache with note tags present and some rule applies to
\* its text
RuleStep ==
    /\ calls' = calls + 1
    /\ ~call'.hit
    /\ call'.note_tags.some
    /\ rules.some
    /\ FirstRule(rules.v, call'.expression, call'.note_tags.v) # 0

\* the morphemes of the first applicable rule for the logged call: those of
\* the prefix, one literal morpheme per string of the rule, those of the
\* suffix, the two spans resolved in this order from the state before the call
RuleResult ==
    LET rule == rules.v[FirstRule(rules.v, call'.expression, call'.note_tags.v)]
        sp == reSplit(rule.regex, call'.expression)
        a == getMorphemes(CacheState, call'.an, sp[1], call'.note_tags, 1)
        c == getMorphemes(a.C, call'.an, sp[2], call'.note_tags, 1)
    IN [ms |-> a.ms
               \o [k \in 1..Len(rule.morphemes) |->
                     Morpheme(rule.morphemes[k], rule.morphemes[k], "UNKNOWN", "UNKNOWN",
                              rule.morphemes[k])]
               \o c.ms]

\* C21: on a miss with note tags the first applicable rule in list order is
\* the one used: the call returns the prefix morphemes, then one literal
\* morpheme per string of that rule, then the suffix morphemes, and no later
\* rule is applied to the text.
FirstRuleOnly ==
    [][RuleStep => (call'.kind = "ok" /\ call'.ms = RuleResult.ms)]_vars

\* a call that returns after a rule applied returns the morphemes of the
\* first applicable rule
FirstRuleWhenReturns ==
    [][(RuleStep /\ call'.kind = "ok") => call'.ms = RuleResult.ms]_vars

\* a call of getMorphemes returns or raises
CallStep == calls' = calls + 1

\* the cache the call finds: the memoized one, or the one MorphCache() makes
CacheBefore ==
    IF store.loaded THEN cache
    ELSE IF store.file = "valid" THEN disk
    ELSE EmptyCache

\* C22: the cache is written to its file exactly when the count of stored
\* results, those of nested calls included, reaches a multiple of
\* FlushEvery: the file then holds the cache as it is at that store, and no
\* other call touches the file; a hit returns the stored morphemes and
\* leaves the cache, the counter and the file as they are.
FlushOnHundredth ==
    [][CallStep =>
        LET morph_key == <<getDescription(call'.an), call'.expression>>
        IN /\ (FlushStep /\ store.writable) =>
                 /\ store'.file = "valid"
                 /\ \A k \in DOMAIN disk' : k \in DOMAIN cache' /\ disk'[k] = cache'[k]
                 /\ \A k \in DOMAIN CacheBefore : k \in DOMAIN disk'
                 /\ \E k \in (n + 1)..n' :
                       /\ k % FlushEvery = 0
                       /\ Cardinality(DOMAIN disk')
                            = Cardinality(DOMAIN CacheBefore) + (k - n)
           /\ (FlushStep /\ ~store.writable) => (call'.kind = "OSError" /\ disk' = disk)
           /\ ~FlushStep => (disk' = disk /\ store'.file = store.file)
           /\ (store.file # "corrupt" /\ morph_key \in DOMAIN CacheBefore) =>
                 /\ call'.kind = "ok"
                 /\ call'.ms = CacheBefore[morph_key]
                 /\ cache' = CacheBefore
                 /\ n' = n
                 /\ disk' = disk
                 /\ store'.file = store.file]_vars

\* a nested call has stored the FlushEvery-th result and flushed, and the
\* call that made it has stored one more without flushing
FlushedOnHundredth ==
    /\ calls = 2
    /\ call.kind = "ok"
    /\ n = FlushEvery + 1
    /\ store.file = "valid"
    /\ Cardinality(DOMAIN disk) = FlushEvery
    /\ Cardinality(DOMAIN cache) = FlushEvery + 1

\* a call of one of the mutation methods on the instance last'.self
MutationStep ==
    /\ ops' = ops + 1
    /\ last'.op \in {"addMLs", "addMsL", "addFromLocDb", "merge"}

\* C23: instances share no location set, also after a merge: a mutation of
\* one instance (addMLs, addMsL, addFromLocDb, merge of another database
\* into it) leaves the keys and location sets of every other instance as
\* they were.
MergeSharesNothing ==
    [][MutationStep =>
         \A d \in DbIds \ {last'.self} : View(db', heap', d) = View(db, heap, d)]_vars

====
